---- MODULE Spec2Model ----
(***************************************************************************)
(* Model of the two visualisation scripts of brain-hologram:               *)
(*   viz_interactive.py  - volume renderer with a slider panel, a reset    *)
(*                         and a reprocess button, and a 30 Hz timer;      *)
(*   viz_hologram.py     - isosurface layers + particles, and a 30 Hz      *)
(*                         timer.                                          *)
(* A run executes one of the two scripts (variable prog), or, under        *)
(* SpecSampler, calls create_particles of viz_hologram.py on its own.      *)
(*                                                                         *)
(* Numbers.  float32 voxel values of viz_interactive.py are fixed-point    *)
(* integers with denominator Scale; every division rounds down.            *)
(* Parameter values (params[...]) are kept in hundredths, the resolution   *)
(* of the sliders (value / scale with scale = 100).  Voxel values of       *)
(* viz_hologram.py are kept in thousandths, so that the five iso levels    *)
(* 0.3, 0.425, 0.55, 0.675, 0.8 are integers.  Angles are degrees; time is *)
(* measured in a unit that makes dt * rotation_speed a whole number of     *)
(* quarter turns, so that every rotation matrix has integer entries.       *)
(* Offsets of transforms are kept in half voxels (center = shape / 2).     *)
(***************************************************************************)
EXTENDS Integers, Sequences, FiniteSets, TLC

VARIABLES
    prog,            \* "interactive" | "hologram": the script that runs
                     \* ("sampler": create_particles called on its own)
    phase,           \* "startup" | "running" | "crashed"
    current_frame,   \* current_frame[0] (both scripts)
    tick_error,      \* exception caught by the last tick ("none" if none)
    \* ---- viz_interactive.py
    voxels_raw,      \* raw series after load (nan_to_num, abs)
    params,          \* the params dict, in hundredths
    sliders,         \* QSlider positions (integers, value * scale)
    voxels,          \* processed series
    holo,            \* the Volume visual: data, clim, gamma, step, transform
    elecs,           \* transform of the electrodes node
    rotation_angle,  \* rotation_angle[0]
    \* ---- viz_hologram.py
    h_voxels,        \* normalised series (thousandths)
    mesh_layers,     \* list of Mesh visuals: geometry and transform
    particles,       \* None or the Markers visual: data and transform
    elec_markers,    \* transform of the electrode markers
    rotation,        \* rotation[0]
    \* ---- a call of create_particles
    call,            \* None or the arguments: volume, threshold, max_points
    returned         \* None or the tuple the call returned, in a record

vars == <<prog, phase, current_frame, tick_error, voxels_raw, params, sliders,
          voxels, holo, elecs, rotation_angle, h_voxels, mesh_layers,
          particles, elec_markers, rotation, call, returned>>

ivars == <<voxels_raw, params, sliders, voxels, holo, elecs, rotation_angle>>

hvars == <<h_voxels, mesh_layers, particles, elec_markers, rotation>>

svars == <<call, returned>>

-----------------------------------------------------------------------------
(* Bounds of the model *)

NumFrames == 2          \* frames of a series
NVox == 3               \* voxels of a frame: volumes have shape (NVox, 1, 1)
MaxAway == 2            \* sliders that are away from their default at once
MaxTurns == 2           \* the timer stops once the angle would pass MaxTurns quarter turns

Scale == 10             \* denominator of the fixed-point voxel values

\* Python's None; every value that can be None is a record
None == [none |-> TRUE]

-----------------------------------------------------------------------------
(* Arithmetic helpers *)

Max(a, b) == IF a >= b THEN a ELSE b

Min(a, b) == IF a <= b THEN a ELSE b

Abs(x) == IF x < 0 THEN -x ELSE x

\* np.clip(x, lo, hi)
Clip(x, lo, hi) == IF x < lo THEN lo ELSE IF x > hi THEN hi ELSE x

RECURSIVE IPow(_, _)
IPow(b, e) == IF e = 0 THEN 1 ELSE b * IPow(b, e - 1)

RECURSIVE Gcd(_, _)
Gcd(a, b) == IF b = 0 THEN a ELSE Gcd(b, a % b)

\* sum of f[k] for k in lo..hi
RECURSIVE SumOver(_, _, _)
SumOver(f, lo, hi) == IF lo > hi THEN 0 ELSE f[lo] + SumOver(f, lo + 1, hi)

RECURSIVE Insert(_, _)
Insert(x, s) ==
    IF s = << >> THEN <<x>>
    ELSE IF x <= Head(s) THEN <<x>> \o s
    ELSE <<Head(s)>> \o Insert(x, Tail(s))

RECURSIVE Sort(_)
Sort(s) == IF s = << >> THEN << >> ELSE Insert(Head(s), Sort(Tail(s)))

\* the array f with every element computed (a tuple)
Array(f) == f \o << >>

-----------------------------------------------------------------------------
(* viz_interactive.py: the normalisation pipeline, process_voxels *)

\* floor(1000 * ln(1 + k)) for k = 0..5
LnTable == <<0, 693, 1098, 1386, 1609, 1791>>

\* np.log(x + 1) of a fixed-point x that is a whole number (the raw values of
\* the model are whole numbers; the 1e-8 added before is below the resolution)
Log1p(x) == (LnTable[(x \div Scale) + 1] * Scale) \div 1000

\* lines 60-63: voxels = (1 - m) * voxels + m * log(voxels + 1), m in hundredths
LogMix(series, m) ==
    IF m > 0
    THEN Array([i \in DOMAIN series |->
            Array([v \in DOMAIN series[i] |->
                ((100 - m) * series[i][v] + m * Log1p(series[i][v])) \div 100])])
    ELSE series

\* the value at virtual index pos / 10000 (0-based) of the sorted array s,
\* by linear interpolation between its two neighbours
Interpolate(s, pos) ==
    IF pos % 10000 = 0 THEN s[(pos \div 10000) + 1]
    ELSE s[(pos \div 10000) + 1]
         + ((pos % 10000) * (s[(pos \div 10000) + 2] - s[(pos \div 10000) + 1])) \div 10000

\* np.percentile(frame, q) (linear interpolation) given the sorted frame;
\* q in hundredths of a percent
PercentileSorted(s, q) == Interpolate(s, q * (Len(s) - 1))

Percentile(frame, q) == PercentileSorted(Sort(frame), q)

\* lines 69-70: the frame rescaled between vmin and vmax, left as it is when
\* vmax > vmin does not hold
Rescale(frame, vmin, vmax) ==
    IF vmax > vmin
    THEN Array([v \in DOMAIN frame |->
            Clip(((frame[v] - vmin) * Scale) \div (vmax - vmin), 0, Scale)])
    ELSE frame

\* lines 67-70: one frame of the per-frame loop
NormalizeSorted(frame, s, pmin, pmax) ==
    Rescale(frame, PercentileSorted(s, pmin), PercentileSorted(s, pmax))

NormalizeFrame(frame, pmin, pmax) == NormalizeSorted(frame, Sort(frame), pmin, pmax)

\* x ** (c / 100) of a fixed-point x >= 0: the largest y with
\* (y / Scale) ^ den <= (x / Scale) ^ num, c / 100 = num / den in lowest terms
\* the largest y >= from with y ^ den * mul <= bound
RECURSIVE Root(_, _, _, _)
Root(from, den, mul, bound) ==
    IF IPow(from + 1, den) * mul > bound THEN from
    ELSE Root(from + 1, den, mul, bound)

PowerFrac(x, num, den) ==
    IF den = 1 THEN IPow(x, num) \div IPow(Scale, num - 1)
    ELSE IF num < den
    THEN Root(0, den, 1, IPow(x, num) * IPow(Scale, den - num))
    ELSE Root(0, den, IPow(Scale, num - den), IPow(x, num))

Power(x, c) == PowerFrac(x, c \div Gcd(c, 100), 100 \div Gcd(c, 100))

\* line 73: voxels = voxels ** params['contrast']
Contrast(series, c) ==
    Array([i \in DOMAIN series |->
        Array([v \in DOMAIN series[i] |-> Power(series[i][v], c)])])

\* line 76: voxels = voxels * params['brightness']
Brightness(series, b) ==
    Array([i \in DOMAIN series |->
        Array([v \in DOMAIN series[i] |-> (series[i][v] * b) \div 100])])

\* mutant of ClipSeries: line 77 left out
ClipSeries_missing(series) == series

\* line 77: voxels = np.clip(voxels, 0, 1)
ClipSeries(series) ==
    Array([i \in DOMAIN series |->
        Array([v \in DOMAIN series[i] |-> Clip(series[i][v], 0, Scale)])])

\* weights 1000 * exp(-k^2 / (2 sigma^2)), k = 0..int(4 sigma + 0.5), of the
\* kernel of scipy's gaussian_filter, for the sigmas the sliders of the model reach
GaussKernel(sigma) ==
    CASE sigma = 150 -> <<1000, 801, 411, 135, 29, 4, 0>>
      [] sigma = 50  -> <<1000, 135, 0>>

\* index of the voxel that position j (0-based, any integer) reads in scipy's
\* boundary mode 'reflect' (d c b a | a b c d | d c b a)
Reflect(j, n) == LET m == j % (2 * n) IN IF m < n THEN m ELSE 2 * n - 1 - m

\* gaussian_filter(frame, sigma) of a volume of shape (n, 1, 1)
Convolve(frame, w, r, total) ==
    LET term(i) == [k \in 0..(2 * r) |->
                      w[Abs(k - r) + 1] * frame[Reflect(i + k - r, Len(frame)) + 1]]
    IN  Array([i \in 1..Len(frame) |-> SumOver(term(i - 1), 0, 2 * r) \div total])

GaussianFilter(frame, sigma) ==
    Convolve(frame, GaussKernel(sigma), Len(GaussKernel(sigma)) - 1,
             GaussKernel(sigma)[1] + 2 * SumOver(GaussKernel(sigma), 2, Len(GaussKernel(sigma))))

\* lines 80-82
Smooth(series, sigma) ==
    IF sigma > 0
    THEN Array([i \in DOMAIN series |-> GaussianFilter(series[i], sigma)])
    ELSE series

\* lines 66-70: the per-frame loop
NormalizeSeries(series, pmin, pmax) ==
    Array([i \in DOMAIN series |-> NormalizeFrame(series[i], pmin, pmax)])

\* mutant of process_voxels: the contrast stage reads the default, not params
process_voxels_stale(raw, p) ==
    LET mixed == LogMix(raw, p["log_scale"])
        normed == NormalizeSeries(mixed, p["percentile_min"], p["percentile_max"])
        powered == Contrast(normed, 80)
        bright == ClipSeries(Brightness(powered, p["brightness"]))
    IN  Smooth(bright, p["smoothing"])

\* lines 56-84
process_voxels(raw, p) ==
    LET mixed == LogMix(raw, p["log_scale"])
        normed == NormalizeSeries(mixed, p["percentile_min"], p["percentile_max"])
        powered == Contrast(normed, p["contrast"])
        bright == ClipSeries(Brightness(powered, p["brightness"]))
    IN  Smooth(bright, p["smoothing"])

-----------------------------------------------------------------------------
(* Transforms: vispy's MatrixTransform restricted to translations and         *)
(* rotations about z by whole quarter turns.  [rot, off] maps a point p to    *)
(* R^rot p + off, R the rotation by 90 degrees about z; off is in half voxels *)

\* rotation of a vector about the z axis by q quarter turns
RECURSIVE RotZ(_, _)
RotZ(v, q) == IF q = 0 THEN v ELSE RotZ(<<-v[2], v[1], v[3]>>, q - 1)

\* MatrixTransform() and MatrixTransform.reset()
Identity == [rot |-> 0, off |-> <<0, 0, 0>>]

\* MatrixTransform.translate(pos): applied after the transform so far
Translate(t, pos) ==
    [t EXCEPT !.off = <<t.off[1] + pos[1], t.off[2] + pos[2], t.off[3] + pos[3]>>]

\* MatrixTransform.rotate(angle, (0, 0, 1)): applied after the transform so far
Rotate(t, angle) ==
    LET q == (angle \div 90) % 4
    IN  [rot |-> (t.rot + q) % 4, off |-> RotZ(t.off, q)]

\* the volume shape, and -center = -shape / 2 in half voxels
Shape == <<NVox, 1, 1>>

NegCenter == <<-Shape[1], -Shape[2], -Shape[3]>>

\* ev.dt of a timer event
DtSet == {45}

-----------------------------------------------------------------------------
(* viz_interactive.py: parameters, sliders, handlers *)

\* the keys of params, in the order of the dict literal
ParamNames ==
    <<"smoothing", "gamma", "step_size", "clim_min", "clim_max", "contrast",
      "rotation_speed", "brightness", "percentile_min", "percentile_max",
      "frame_skip", "log_scale">>

NameSet == {ParamNames[k] : k \in DOMAIN ParamNames}

\* lines 40-53, in hundredths
DefaultParams ==
    [smoothing |-> 150, gamma |-> 200, step_size |-> 50, clim_min |-> 0,
     clim_max |-> 70, contrast |-> 80, rotation_speed |-> 200,
     brightness |-> 100, percentile_min |-> 500, percentile_max |-> 9500,
     frame_skip |-> 100, log_scale |-> 0]

\* mutant of ResetDefaults: the dict of reset_defaults has another gamma
ResetDefaults_gamma1 == [DefaultParams EXCEPT !["gamma"] = 100]

\* lines 316-322: the defaults dict of reset_defaults, in hundredths
ResetDefaults ==
    [smoothing |-> 150, gamma |-> 200, step_size |-> 50, clim_min |-> 0,
     clim_max |-> 70, contrast |-> 80, rotation_speed |-> 200,
     brightness |-> 100, percentile_min |-> 500, percentile_max |-> 9500,
     frame_skip |-> 100, log_scale |-> 0]

\* the scale argument of create_slider (lines 198-209)
SliderScale(name) == IF name = "frame_skip" THEN 1 ELSE 100

\* mutant of SliderMin: the percentile_max slider starts at 20, below the top
\* of the percentile_min slider
SliderMin_overlapping == [n \in NameSet |-> IF n = "percentile_max" THEN 2000 ELSE 0]

\* slider.setMinimum(int(min_val * scale)), lines 198-209
SliderMin ==
    [smoothing |-> 0, gamma |-> 50, step_size |-> 10, clim_min |-> 0,
     clim_max |-> 20, contrast |-> 30, rotation_speed |-> 0,
     brightness |-> 10, percentile_min |-> 0, percentile_max |-> 7000,
     frame_skip |-> 1, log_scale |-> 0]

\* slider.setMaximum(int(max_val * scale)), lines 198-209
SliderMax ==
    [smoothing |-> 500, gamma |-> 1000, step_size |-> 200, clim_min |-> 50,
     clim_max |-> 100, contrast |-> 500, rotation_speed |-> 1000,
     brightness |-> 200, percentile_min |-> 3000, percentile_max |-> 10000,
     frame_skip |-> 20, log_scale |-> 100]

\* int(value * scale) of a value kept in hundredths
ToSlider(name, hundredths) == (hundredths * SliderScale(name)) \div 100

\* value / scale, in hundredths
FromSlider(name, value) == (value * 100) \div SliderScale(name)

\* the slider positions a user of the model drags a slider to
SliderStops ==
    [smoothing |-> {0, 150}, gamma |-> {50, 200}, step_size |-> {10, 50},
     clim_min |-> {0, 50}, clim_max |-> {20, 70}, contrast |-> {80, 200},
     rotation_speed |-> {0, 200}, brightness |-> {100, 200},
     percentile_min |-> {500, SliderMax["percentile_min"]},
     percentile_max |-> {SliderMin["percentile_max"], 9500},
     frame_skip |-> {1, 20}, log_scale |-> {0, 100}]

\* mutant of handler: the volume is left for a later reprocess to update
handler_deferred(ui, param_name, value) ==
    [ui EXCEPT !.params[param_name] = FromSlider(param_name, value)]

\* lines 297-308: the valueChanged handler of slider param_name
handler(ui, param_name, value) ==
    LET actual_value == FromSlider(param_name, value)
        p == [ui.params EXCEPT ![param_name] = actual_value]
        h == CASE param_name = "gamma" -> [ui.holo EXCEPT !.gamma = actual_value]
               [] param_name = "step_size" ->
                    [ui.holo EXCEPT !.relative_step_size = actual_value]
               [] param_name \in {"clim_min", "clim_max"} ->
                    [ui.holo EXCEPT !.clim = <<p["clim_min"], p["clim_max"]>>]
               [] OTHER -> ui.holo
    IN  [ui EXCEPT !.params = p, !.holo = h]

\* QSlider.setValue(v): the value is bound to the slider's range, and
\* valueChanged is emitted (line 313 connects handler) only when it changes
setValue(ui, name, v) ==
    LET b == Clip(v, SliderMin[name], SliderMax[name])
    IN  IF b = ui.sliders[name] THEN ui
        ELSE handler([ui EXCEPT !.sliders[name] = b], name, b)

\* lines 323-324: the loop of reset_defaults over the first k defaults
RECURSIVE ResetLoop(_, _)
ResetLoop(ui, k) ==
    IF k = 0 THEN ui
    ELSE LET name == ParamNames[k]
         IN  setValue(ResetLoop(ui, k - 1), name, ToSlider(name, ResetDefaults[name]))

UI == [sliders |-> sliders, params |-> params, holo |-> holo]

\* line 167: slider.setValue(int(default * scale)), default = params[name]
InitialSliders == [n \in NameSet |-> ToSlider(n, DefaultParams[n])]

\* number of sliders away from the position they were created with
Away(s) == Cardinality({n \in NameSet : s[n] # InitialSliders[n]})

-----------------------------------------------------------------------------
(* viz_interactive.py: the raw series *)

\* frames before line 16 (values in whole units), by kind
InputFrame(kind) ==
    [v \in 1..NVox |->
        CASE kind = 0 -> IF v % 2 = 1 THEN -(v % 3) ELSE v % 3
          [] kind = 1 -> 2                               \* constant frame
          [] kind = 2 -> IF v = 1 THEN 5 ELSE 0          \* one hot voxel
          [] kind = 3 -> 0]                              \* all zero

\* lines 13-16: astype(float32), nan_to_num (inputs are finite), abs
LoadRaw(first) ==
    Array([i \in 1..NumFrames |->
        Array([v \in 1..NVox |-> Abs(InputFrame((first + i - 1) % 4)[v]) * Scale])])

RawSeriesChoices == {LoadRaw(first) : first \in {0, 2}}

-----------------------------------------------------------------------------
(* viz_interactive.py: initial state (after line 293) and the handlers *)

InitInteractive ==
    /\ prog = "interactive"
    /\ phase = "running"
    /\ voxels_raw \in RawSeriesChoices
    /\ params = DefaultParams
    /\ sliders = InitialSliders
    /\ voxels = process_voxels(voxels_raw, params)
    /\ holo = [data |-> voxels[1],
               clim |-> <<params["clim_min"], params["clim_max"]>>,
               gamma |-> params["gamma"],
               relative_step_size |-> params["step_size"],
               transform |-> Translate(Identity, NegCenter)]
    /\ elecs = Translate(Identity, NegCenter)
    /\ current_frame = 0
    /\ rotation_angle = 0
    /\ tick_error = "none"
    /\ h_voxels = << >>
    /\ mesh_layers = << >>
    /\ particles = None
    /\ elec_markers = None
    /\ rotation = 0
    /\ call = None
    /\ returned = None

\* mutant of update_param: a change of a slider also reruns the pipeline
update_param_reprocessing(name, value) ==
    /\ prog = "interactive"
    /\ value # sliders[name]
    /\ Away([sliders EXCEPT ![name] = value]) <= MaxAway
    /\ LET ui == setValue(UI, name, value)
       IN  /\ sliders' = ui.sliders
           /\ params' = ui.params
           /\ voxels' = process_voxels(voxels_raw, ui.params)
           /\ holo' = [ui.holo EXCEPT !.data = voxels'[current_frame + 1]]
    /\ UNCHANGED <<prog, phase, current_frame, tick_error, voxels_raw, elecs,
                   rotation_angle>>
    /\ UNCHANGED hvars
    /\ UNCHANGED svars

\* lines 296-309 with line 313: the user drags slider name to position value
update_param(name, value) ==
    /\ prog = "interactive"
    /\ value # sliders[name]
    /\ Away([sliders EXCEPT ![name] = value]) <= MaxAway
    /\ LET ui == setValue(UI, name, value)
       IN  /\ sliders' = ui.sliders
           /\ params' = ui.params
           /\ holo' = ui.holo
    /\ UNCHANGED <<prog, phase, current_frame, tick_error, voxels_raw, voxels,
                   elecs, rotation_angle>>
    /\ UNCHANGED hvars
    /\ UNCHANGED svars

\* lines 315-324
reset_defaults ==
    /\ prog = "interactive"
    /\ LET ui == ResetLoop(UI, Len(ParamNames))
       IN  /\ sliders' = ui.sliders
           /\ params' = ui.params
           /\ holo' = ui.holo
    /\ UNCHANGED <<prog, phase, current_frame, tick_error, voxels_raw, voxels,
                   elecs, rotation_angle>>
    /\ UNCHANGED hvars
    /\ UNCHANGED svars

\* mutant of reprocess: the pipeline works on voxels_raw itself, not on a copy
reprocess_inplace ==
    /\ prog = "interactive"
    /\ UNCHANGED <<prog, phase, current_frame, tick_error, params,
                   sliders, elecs, rotation_angle>>
    /\ UNCHANGED hvars
    /\ UNCHANGED svars
    /\ voxels' = process_voxels(voxels_raw, params)
    /\ voxels_raw' = voxels'
    /\ holo' = [holo EXCEPT !.data = voxels'[current_frame + 1]]

\* lines 326-331
reprocess ==
    /\ prog = "interactive"
    /\ UNCHANGED <<prog, phase, current_frame, tick_error, voxels_raw, params,
                   sliders, elecs, rotation_angle>>
    /\ UNCHANGED hvars
    /\ UNCHANGED svars
    /\ voxels' = process_voxels(voxels_raw, params)
    /\ holo' = [holo EXCEPT !.data = voxels'[current_frame + 1]]

\* mutant of Caught: the exception leaves update and ends the loop
Caught_propagates(err) == IF err = "none" THEN "running" ELSE "crashed"

\* viz_interactive.py lines 337 and 354-355, viz_hologram.py lines 115 and
\* 156-157: the body of update is one try whose except catches every Exception,
\* so whatever a tick raised the timer goes on calling update
Caught(err) == "running"

\* mutant of NextFrame: the index is not taken modulo the length
NextFrame_unwrapped(cur, p, n) == cur + Max(1, p["frame_skip"] \div 100)

\* mutant of NextFrame: frame_skip is ignored
NextFrame_step1(cur, p, n) == (cur + 1) % n

\* lines 339-340: the frame the tick moves to
NextFrame(cur, p, n) == (cur + Max(1, p["frame_skip"] \div 100)) % n

\* mutant of Placed: the transform is not reset before it is composed
Placed_unreset(t, angle) == Rotate(Translate(t, NegCenter), angle)

\* lines 347-349 and 351-353: reset, translate(-center), rotate(angle, z)
Placed(t, angle) == Rotate(Translate(Identity, NegCenter), angle)

\* lines 336-355: the timer callback of viz_interactive.py
update_interactive(dt) ==
    /\ prog = "interactive"
    /\ LET i == NextFrame(current_frame, params, Len(voxels))
           angle == rotation_angle + (dt * params["rotation_speed"]) \div 100
       IN  /\ angle <= MaxTurns * 90
           /\ current_frame' = i
           /\ IF i < Len(voxels)
              THEN /\ tick_error' = "none"
                   /\ rotation_angle' = angle
                   /\ holo' = [holo EXCEPT !.data = voxels[i + 1],
                                           !.transform = Placed(holo.transform, angle)]
                   /\ elecs' = Placed(elecs, angle)
              ELSE \* line 343: voxels[i] raises IndexError, caught at line 354
                   /\ tick_error' = "IndexError"
                   /\ UNCHANGED <<rotation_angle, holo, elecs>>
    /\ phase' = Caught(tick_error')
    /\ UNCHANGED <<prog, voxels_raw, params, sliders, voxels>>
    /\ UNCHANGED hvars
    /\ UNCHANGED svars

-----------------------------------------------------------------------------
(* viz_hologram.py *)

ROTATION_SPEED == 2

NUM_LAYERS == 5

\* the defaults of create_particles: threshold=0.8 (thousandths), max_points=3000
DefaultThreshold == 800

DefaultMaxPoints == 3000

\* np.linspace(start, stop, num): num evenly spaced values, the first start
\* and, for num > 1, the last stop
linspace(start, stop, num) ==
    [k \in 1..num |->
        IF num = 1 THEN start ELSE start + ((k - 1) * (stop - start)) \div (num - 1)]

\* line 31: np.linspace(0.3, 0.8, NUM_LAYERS), in thousandths
iso_levels == linspace(300, 800, NUM_LAYERS)

\* normalised frames (the result of lines 17-22), in thousandths, by kind
HoloFrame(kind) ==
    [v \in 1..NVox |->
        CASE kind = 0 -> IF v = 1 THEN 900 ELSE IF v = 2 THEN 0 ELSE 500
          [] kind = 1 -> 0
          [] kind = 2 -> IF v = 1 THEN 950 ELSE IF v = 2 THEN 400 ELSE 600
          [] kind = 3 -> IF v = 1 THEN 700 ELSE 0
          [] kind = 4 -> IF v <= 2 THEN 850 + 50 * v ELSE 100]

HoloSeriesChoices ==
    {[i \in 1..NumFrames |-> HoloFrame(k[i])] : k \in [1..NumFrames -> 0..4]}

\* the outcome of a call that raised
Raised == [raised |-> TRUE]

\* mutant of marching_cubes: a surface is returned for every level
marching_cubes_always(volume, level) ==
    [inside |-> {v \in DOMAIN volume : volume[v] > level}]

\* skimage.measure.marching_cubes(volume, level) (called at lines 35 and 122):
\* raises when the level is outside the data range or no surface is found,
\* which is when the voxels are all above or all not above the level; the
\* surface returned is represented by the set of voxels it encloses
marching_cubes(volume, level) ==
    LET inside == {v \in DOMAIN volume : volume[v] > level}
    IN  IF inside = {} \/ inside = DOMAIN volume THEN Raised ELSE [inside |-> inside]

\* lines 38-48: the mesh of layer idx (1-based), alpha in thousandths
NewMesh(geom, idx) ==
    [geom |-> geom,
     alpha |-> 150 + (100 * idx) \div NUM_LAYERS,
     transform |-> Translate(Identity, NegCenter)]

\* lines 33-54: the loop over the levels from idx on, inside one try: the
\* first extraction that raises ends the loop
RECURSIVE CreateLayers(_, _, _)
CreateLayers(frame, idx, layers) ==
    IF idx > NUM_LAYERS THEN layers
    ELSE LET g == marching_cubes(frame, iso_levels[idx])
         IN  IF g = Raised THEN layers
             ELSE CreateLayers(frame, idx + 1, Append(layers, NewMesh(g, idx)))

\* the subsets of s with n elements
Choices(s, n) == {c \in SUBSET s : Cardinality(c) = n}

\* lines 57-82: the tuples create_particles can return (np.random.choice draws
\* one of the subsets); positions are voxel indices, colors carry the alpha
\* intensity * 0.5, sizes are 2 + intensity * 6, all in thousandths
create_particles(volume, threshold, max_points) ==
    LET high_intensity == {v \in DOMAIN volume : volume[v] > threshold}
    IN  IF Cardinality(high_intensity) = 0 THEN {<<None, None>>}
        ELSE {<<[voxels |-> indices],
                [v \in indices |-> volume[v] \div 2],
                [v \in indices |-> 2000 + volume[v] * 6]>> :
                indices \in Choices(high_intensity,
                                    Min(Cardinality(high_intensity), max_points))}

InitHologram ==
    /\ prog = "hologram"
    /\ phase = "startup"
    /\ h_voxels \in HoloSeriesChoices
    /\ mesh_layers = << >>
    /\ particles = None
    /\ elec_markers = None
    /\ current_frame = 0
    /\ rotation = 0
    /\ tick_error = "none"
    /\ voxels_raw = << >>
    /\ params = << >>
    /\ sliders = << >>
    /\ voxels = << >>
    /\ holo = None
    /\ elecs = None
    /\ rotation_angle = 0
    /\ call = None
    /\ returned = None

\* lines 30-112, the module-level code after the normalisation: the layers,
\* the particles (line 85 unpacks three values; an exception here is not
\* caught and ends the script), the electrode markers, the animation state
startup_hologram ==
    /\ prog = "hologram"
    /\ phase = "startup"
    /\ mesh_layers' = CreateLayers(h_voxels[1], 1, << >>)
    /\ \E r \in create_particles(h_voxels[1], DefaultThreshold, DefaultMaxPoints) :
          IF Len(r) # 3
          THEN /\ phase' = "crashed"
               /\ UNCHANGED <<particles, elec_markers>>
          ELSE /\ phase' = "running"
               /\ particles' = IF r[1] # None
                               THEN [data |-> r, transform |-> Translate(Identity, NegCenter)]
                               ELSE None
               /\ elec_markers' = Identity
    /\ UNCHANGED <<prog, current_frame, tick_error, h_voxels, rotation>>
    /\ UNCHANGED ivars
    /\ UNCHANGED svars

\* lines 120-130: every mesh of mesh_layers, zipped with its level, gets the
\* geometry of frame unless the extraction raises
UpdateLayers(layers, frame) ==
    [k \in 1..Min(Len(layers), NUM_LAYERS) |->
        LET g == marching_cubes(frame, iso_levels[k])
        IN  IF g = Raised THEN layers[k] ELSE [layers[k] EXCEPT !.geom = g]]

\* lines 132-136: the exception the particle update raises, "none" if none.
\* r is what create_particles returned: line 134 unpacks three values; line
\* 136 reads center, a local of update (assigned at line 140) not yet bound
ParticleError(p, r) ==
    IF p = None THEN "none"
    ELSE IF Len(r) # 3 THEN "ValueError"
    ELSE IF r[1] # None THEN "UnboundLocalError"
    ELSE "none"

\* lines 142-145: reset, translate(-center), rotate(angle, z) of every mesh
RotateLayers(layers, angle) ==
    [k \in DOMAIN layers |->
        [layers[k] EXCEPT !.transform = Placed(layers[k].transform, angle)]]

\* lines 114-157: the timer callback of viz_hologram.py
update_hologram(dt) ==
    /\ prog = "hologram"
    /\ phase = "running"
    /\ LET i == (current_frame + 1) % Len(h_voxels)
           layers == UpdateLayers(mesh_layers, h_voxels[i + 1])
           angle == rotation + dt * ROTATION_SPEED
       IN  /\ current_frame' = i
           /\ \E r \in create_particles(h_voxels[i + 1], DefaultThreshold, DefaultMaxPoints) :
                 LET err == ParticleError(particles, r)
                 IN  /\ tick_error' = err
                     /\ phase' = Caught(err)
                     /\ IF err # "none"
                        THEN /\ mesh_layers' = layers
                             /\ UNCHANGED <<particles, elec_markers, rotation>>
                        ELSE /\ angle <= MaxTurns * 90
                             /\ rotation' = angle
                             /\ mesh_layers' = RotateLayers(layers, angle)
                             /\ particles' =
                                  IF particles = None THEN None
                                  ELSE [particles EXCEPT
                                          !.transform = Placed(particles.transform, angle)]
                             /\ elec_markers' = Rotate(Identity, angle)
    /\ UNCHANGED <<prog, h_voxels>>
    /\ UNCHANGED ivars
    /\ UNCHANGED svars

-----------------------------------------------------------------------------
(* The specification *)

Init == InitInteractive \/ InitHologram

Next ==
    \/ \E name \in NameSet : \E value \in SliderStops[name] : update_param(name, value)
    \/ reset_defaults
    \/ reprocess
    \/ \E dt \in DtSet : update_interactive(dt)
    \/ startup_hologram
    \/ \E dt \in DtSet : update_hologram(dt)

Spec == Init /\ [][Next]_vars

-----------------------------------------------------------------------------
(* create_particles of viz_hologram.py called on its own *)

\* voxel values of the volumes handed to create_particles, in thousandths
SampleValues == {0, 500, 850, 1000}

SampleVolumes == [1..NVox -> SampleValues]

SampleThresholds == {500, DefaultThreshold}

SampleMaxPoints == {1, 2, DefaultMaxPoints}

InitSampler ==
    /\ prog = "sampler"
    /\ phase = "running"
    /\ call \in [volume : SampleVolumes, threshold : SampleThresholds,
                  max_points : SampleMaxPoints]
    /\ returned = None
    /\ current_frame = 0
    /\ tick_error = "none"
    /\ voxels_raw = << >>
    /\ params = << >>
    /\ sliders = << >>
    /\ voxels = << >>
    /\ holo = None
    /\ elecs = None
    /\ rotation_angle = 0
    /\ h_voxels = << >>
    /\ mesh_layers = << >>
    /\ particles = None
    /\ elec_markers = None
    /\ rotation = 0

\* lines 57-82: the call returns one of the tuples create_particles can return
call_create_particles ==
    /\ prog = "sampler"
    /\ returned = None
    /\ \E r \in create_particles(call.volume, call.threshold, call.max_points) :
          returned' = [tuple |-> r]
    /\ UNCHANGED <<prog, phase, current_frame, tick_error, call>>
    /\ UNCHANGED ivars
    /\ UNCHANGED hvars

NextSampler == call_create_particles

SpecSampler == InitSampler /\ [][NextSampler]_vars

-----------------------------------------------------------------------------
(* Properties *)

Interactive == prog = "interactive"

Hologram == prog = "hologram"

TickInteractive == \E dt \in DtSet : update_interactive(dt)

TickHologram == \E dt \in DtSet : update_hologram(dt)

\* the voxels of frame f that exceed level
Above(f, level) == {v \in DOMAIN f : f[v] > level}

\* a frame of constant value
Flat(f) == \A v \in DOMAIN f : f[v] = f[1]

\* one frame taken through the stages of the pipeline under parameters p
FrameUnder(frame, p) ==
    LET mixed == LogMix(<<frame>>, p["log_scale"])[1]
        normed == NormalizeFrame(mixed, p["percentile_min"], p["percentile_max"])
        powered == Contrast(<<normed>>, p["contrast"])
        bright == ClipSeries(Brightness(powered, p["brightness"]))
    IN  Smooth(bright, p["smoothing"])[1]

\* the rigid motion that centres the volume and turns it by angle about z
Centred(angle) ==
    [rot |-> (angle \div 90) % 4, off |-> RotZ(NegCenter, (angle \div 90) % 4)]

\* C1: every tick moves the frame index to (index + step) mod series length,
\* with step max(1, int(frame_skip)) in viz_interactive.py and 1 in
\* viz_hologram.py, also in a tick whose later steps raise.
C1_FrameAdvance ==
    [][/\ TickInteractive =>
            current_frame' =
                (current_frame + Max(1, params["frame_skip"] \div 100)) % NumFrames
       /\ TickHologram => current_frame' = (current_frame + 1) % NumFrames]_vars

\* a tick of viz_hologram.py advanced the frame although its particle update raised
C1_Witness == Hologram /\ current_frame = 1 /\ tick_error = "UnboundLocalError"

\* C2: every tick of either script adds dt * rotation_speed to the angle and
\* leaves every layer with the transform recomputed for the new angle.
C2_RotationEveryTick ==
    [][/\ \A dt \in DtSet : update_interactive(dt) =>
            /\ rotation_angle' = rotation_angle + (dt * params["rotation_speed"]) \div 100
            /\ holo'.transform = Centred(rotation_angle')
            /\ elecs' = Centred(rotation_angle')
       /\ \A dt \in DtSet : update_hologram(dt) =>
            /\ rotation' = rotation + dt * ROTATION_SPEED
            /\ \A k \in DOMAIN mesh_layers' :
                  mesh_layers'[k].transform = Centred(rotation')
            /\ particles' # None => particles'.transform = Centred(rotation')
            /\ elec_markers' = Rotate(Identity, rotation')]_vars

\* C3: every value of every frame of the processed series lies in [0, 1].
C3_ProcessedInUnitRange ==
    Interactive =>
        \A i \in DOMAIN voxels : \A v \in DOMAIN voxels[i] :
            0 <= voxels[i][v] /\ voxels[i][v] <= Scale

\* the series was reprocessed with the log mix on and smoothing off, and holds
\* a frame that took the degenerate branch
C3_Witness ==
    /\ Interactive
    /\ params["log_scale"] > 0
    /\ params["smoothing"] = 0
    /\ voxels = process_voxels(voxels_raw, params)
    /\ \E i \in DOMAIN voxels_raw : Flat(voxels_raw[i]) /\ voxels[i][1] = Scale

\* C4: a frame of constant value is normalised to an all-zero frame.
C4_DegenerateIsZero ==
    Interactive =>
        \A i \in DOMAIN voxels_raw :
            Flat(voxels_raw[i]) => \A v \in DOMAIN voxels[i] : voxels[i][v] = 0

\* C5: when no voxel of the frame exceeds the threshold, create_particles
\* returns the three components positions, colors, sizes (empty), and both
\* the startup and the tick that receive them carry on.
C5_EmptyParticlesValid ==
    (Hologram /\ phase # "startup") =>
        /\ \A i \in DOMAIN h_voxels :
              Above(h_voxels[i], DefaultThreshold) = {} =>
                  \A r \in create_particles(h_voxels[i], DefaultThreshold, DefaultMaxPoints) :
                      Len(r) = 3
        /\ Above(h_voxels[1], DefaultThreshold) = {} => phase # "crashed"
        /\ Above(h_voxels[current_frame + 1], DefaultThreshold) = {} =>
              tick_error = "none"

\* C6: at startup and after every tick, every level whose extraction succeeds
\* on the current frame has its mesh, holding that surface, whichever other
\* levels fail.
C6_NoLayerBlocksAnother ==
    (Hologram /\ phase = "running") =>
        \A k \in 1..NUM_LAYERS :
            marching_cubes(h_voxels[current_frame + 1], iso_levels[k]) # Raised =>
                /\ k <= Len(mesh_layers)
                /\ mesh_layers[k].geom =
                       marching_cubes(h_voxels[current_frame + 1], iso_levels[k])

\* C7: reprocess replaces the whole series: whenever reprocess runs, and
\* whenever the processed series changes, every frame of the new series is the
\* normalisation of its raw frame under the parameters current at that step,
\* and the volume shows the current frame of the new series.
C7_ReprocessTotal ==
    [][(voxels' # voxels \/ reprocess) =>
          /\ \A i \in DOMAIN voxels_raw : voxels'[i] = FrameUnder(voxels_raw[i], params)
          /\ holo'.data = voxels'[current_frame + 1]]_vars

\* the series was reprocessed under contrast 2.0 and differs from the one
\* computed under the defaults
C7_Witness ==
    /\ Interactive
    /\ params["contrast"] = 200
    /\ voxels = process_voxels(voxels_raw, params)
    /\ voxels # process_voxels(voxels_raw, DefaultParams)

\* C8: a slider change, a reset and a tick leave the processed series as it is:
\* every step that changes a parameter, a slider, the frame index or the angle
\* keeps the processed series.
C8_PipelineOnlyOnReprocess ==
    [][(\/ params' # params
        \/ sliders' # sliders
        \/ current_frame' # current_frame
        \/ rotation_angle' # rotation_angle
        \/ TickInteractive
        \/ reset_defaults
        \/ \E name \in NameSet : \E value \in SliderStops[name] : update_param(name, value))
            => voxels' = voxels]_vars

\* batch parameters were changed and the processed series is still the one
\* computed under the defaults, which differs from what reprocess would give
C8_Witness ==
    /\ Interactive
    /\ params["contrast"] = 200
    /\ params["brightness"] = 200
    /\ voxels = process_voxels(voxels_raw, DefaultParams)
    /\ voxels # process_voxels(voxels_raw, params)

\* C9: the clipping window of the volume satisfies clim_min < clim_max.
C9_ClimOrdered == Interactive => holo.clim[1] < holo.clim[2]

\* C10: the transform of every layer is the one determined by the current
\* angle and the center alone.
C10_TransformFromAngle ==
    /\ Interactive => holo.transform = Centred(rotation_angle) /\ elecs = Centred(rotation_angle)
    /\ (Hologram /\ phase = "running") =>
          /\ \A k \in DOMAIN mesh_layers : mesh_layers[k].transform = Centred(rotation)
          /\ particles # None => particles.transform = Centred(rotation)
          /\ elec_markers = Rotate(Identity, rotation)

\* two ticks ran at the same angle: one turned the volume by a quarter turn,
\* then, with the rotation speed at 0, another left the angle where it was
C10_Witness ==
    /\ Interactive
    /\ params["rotation_speed"] = 0
    /\ rotation_angle = 90
    /\ current_frame = 0
    /\ holo.transform = Centred(90)

\* the transforms of the layers, in order
LayerTransforms(layers) == [k \in DOMAIN layers |-> layers[k].transform]

\* C11: no error raised in a tick ends the animation: the loop is still
\* running after every tick, a tick that raised left the rest of its work
\* (angle, transforms) undone, and the timer can call update again.
C11_TickErrorsCaught ==
    /\ [](Hologram /\ phase = "running" => ENABLED TickHologram)
    /\ [][/\ (TickInteractive \/ TickHologram) => phase' = "running"
          /\ (TickHologram /\ tick_error' # "none") =>
                /\ rotation' = rotation
                /\ LayerTransforms(mesh_layers') = LayerTransforms(mesh_layers)
                /\ particles' = particles
                /\ elec_markers' = elec_markers]_vars

\* a tick ran after a tick that raised: the first tick met a frame with no
\* voxel above the threshold (ValueError), the second went on to frame 0
C11_Witness ==
    /\ Hologram
    /\ phase = "running"
    /\ Above(h_voxels[NumFrames], DefaultThreshold) = {}
    /\ current_frame = 0
    /\ tick_error = "UnboundLocalError"

Sampler == prog = "sampler"

\* C12: create_particles returns exactly min(k, max_points) particles, k the
\* number of voxels above the threshold (none for k = 0): never more than
\* max_points, each a distinct voxel above the threshold, with positions,
\* colors and sizes of the same length.
C12_SamplerBounded ==
    (Sampler /\ returned # None) =>
        LET r == returned.tuple
            k == Cardinality(Above(call.volume, call.threshold))
        IN  /\ Len(r) = 3
            /\ r[1] # None
            /\ Cardinality(r[1].voxels) = Min(k, call.max_points)
            /\ Cardinality(r[1].voxels) <= call.max_points
            /\ \A v \in r[1].voxels : call.volume[v] > call.threshold
            /\ DOMAIN r[2] = r[1].voxels
            /\ DOMAIN r[3] = r[1].voxels

\* C13: after every tick each displayed layer holds the surface of the
\* current frame at its level; a layer whose extraction fails on the current
\* frame is not shown, so no layer holds a surface of an earlier frame.
C13_LayersShowCurrentFrame ==
    (Hologram /\ phase = "running") =>
        \A k \in DOMAIN mesh_layers :
            mesh_layers[k].geom =
                marching_cubes(h_voxels[current_frame + 1], iso_levels[k])

\* C14: with particles present, every tick regenerates them: after the tick
\* the particles shown are a sample drawn from the new current frame.  Stated
\* for the ticks whose new frame has a voxel above the threshold, where the
\* sample is not empty.
C14_ParticlesRegenerated ==
    [][(/\ TickHologram
        /\ particles # None
        /\ Above(h_voxels[current_frame' + 1], DefaultThreshold) # {}) =>
          /\ particles' # None
          /\ particles'.data \in
                create_particles(h_voxels[current_frame' + 1],
                                 DefaultThreshold, DefaultMaxPoints)]_vars

\* C15: after reset every one of the 12 parameters has the default of the
\* initial params dict, the gamma, step size and clim of the volume are the
\* defaults too, and the processed series is the one from before the reset.
C15_ResetRestoresDefaults ==
    [][reset_defaults =>
          /\ \A n \in NameSet : params'[n] = DefaultParams[n]
          /\ holo'.gamma = DefaultParams["gamma"]
          /\ holo'.relative_step_size = DefaultParams["step_size"]
          /\ holo'.clim = <<DefaultParams["clim_min"], DefaultParams["clim_max"]>>
          /\ voxels' = voxels]_vars

\* every parameter and slider is at its default while the processed series is
\* one computed under other parameters: reprocess ran with sliders moved, and
\* the parameters went back to the defaults without a recomputation
C15_Witness ==
    /\ Interactive
    /\ params = DefaultParams
    /\ sliders = InitialSliders
    /\ holo.gamma = DefaultParams["gamma"]
    /\ voxels # process_voxels(voxels_raw, DefaultParams)

\* C16: in every state the gamma, the relative step size and the clim of the
\* volume are the values of params: gamma, step_size, (clim_min, clim_max).
C16_LiveParamsApplied ==
    Interactive =>
        /\ holo.gamma = params["gamma"]
        /\ holo.relative_step_size = params["step_size"]
        /\ holo.clim = <<params["clim_min"], params["clim_max"]>>

\* live sliders were moved off their defaults, and the processed series is
\* still the one computed at startup
C16_Witness ==
    /\ Interactive
    /\ params["gamma"] = 50
    /\ params["clim_max"] = 20
    /\ holo.gamma = 50
    /\ holo.clim = <<0, 20>>
    /\ voxels = process_voxels(voxels_raw, DefaultParams)

\* the frame lies wholly on one side of every level
NoCrossing(frame) ==
    \A k \in 1..NUM_LAYERS :
        Above(frame, iso_levels[k]) = {} \/ Above(frame, iso_levels[k]) = DOMAIN frame

\* the geometries of the layers, in order
LayerGeometries(layers) == [k \in DOMAIN layers |-> layers[k].geom]

\* C17: the levels of N >= 1 layers are strictly increasing; startup creates
\* at most N layers and a tick updates at most N; startup creates none, and a
\* tick updates none, when the frame crosses no level.
C17_LayerCount ==
    /\ [](\A n \in 1..(NUM_LAYERS + 1) : \A j, k \in 1..n :
            j < k => linspace(300, 800, n)[j] < linspace(300, 800, n)[k])
    /\ [](Hologram => Len(mesh_layers) <= NUM_LAYERS)
    /\ []((Hologram /\ phase # "startup" /\ NoCrossing(h_voxels[1])) =>
              Len(mesh_layers) = 0)
    /\ [][TickHologram =>
            /\ Len(mesh_layers') = Len(mesh_layers)
            /\ NoCrossing(h_voxels[current_frame' + 1]) =>
                  LayerGeometries(mesh_layers') = LayerGeometries(mesh_layers)]_vars

\* all N layers exist, and a tick moved to a frame that crosses no level
C17_Witness ==
    /\ Hologram
    /\ phase = "running"
    /\ Len(mesh_layers) = NUM_LAYERS
    /\ current_frame = 1
    /\ NoCrossing(h_voxels[2])

\* C18: the raw series is never modified, and reprocess gives the same series
\* whenever it runs under the same parameters: a reprocess in a state whose
\* series was computed under the current parameters leaves the series as it is.
C18_ReprocessPure ==
    [][/\ Interactive => voxels_raw' = voxels_raw
       /\ (reprocess /\ voxels = process_voxels(voxels_raw, params)) =>
              voxels' = voxels]_vars

\* reprocess ran under a contrast of 2.0 after ticks had moved the frame index
\* and the angle
C18_Witness ==
    /\ Interactive
    /\ current_frame = 1
    /\ rotation_angle = 180
    /\ params["contrast"] = 200
    /\ voxels # process_voxels(voxels_raw, DefaultParams)
    /\ voxels = process_voxels(voxels_raw, params)

\* C19: in every state the frame index is an index of the series the ticks
\* read: 0 <= index < length, whatever frame_skip the slider was moved to.
C19_FrameIndexValid ==
    /\ Interactive => 0 <= current_frame /\ current_frame < Len(voxels)
    /\ (Hologram /\ phase = "running") =>
          0 <= current_frame /\ current_frame < Len(h_voxels)

\* frame_skip is at the top of its range, above the length of the series, and
\* ticks have moved the index to the last frame
C19_Witness ==
    /\ Interactive
    /\ params["frame_skip"] = 2000
    /\ params["frame_skip"] \div 100 >= Len(voxels)
    /\ current_frame = Len(voxels) - 1
    /\ rotation_angle = 180

\* C20: in every state the sliders and reset can reach, percentile_min is
\* below percentile_max, so process_voxels never runs with the bounds inverted.
C20_PercentilesOrdered ==
    Interactive => params["percentile_min"] < params["percentile_max"]

\* both percentile sliders are at the ends of their ranges that face each
\* other (30 and 70), and the series is the one process_voxels gives under
\* these bounds
C20_Witness ==
    /\ Interactive
    /\ sliders["percentile_min"] = SliderMax["percentile_min"]
    /\ sliders["percentile_max"] = SliderMin["percentile_max"]
    /\ params["percentile_min"] = 3000
    /\ params["percentile_max"] = 7000
    /\ voxels = process_voxels(voxels_raw, params)

====
